---- MODULE Spec2Model ----
(***************************************************************************)
(* Model of Server/server.py: the SQLite-backed store PingDataServer and   *)
(* the HTTP handlers of PingRestApiHandler.                                *)
(*                                                                         *)
(* Python strings are sequences of tokens: a token is one character ("/",  *)
(* "_", " ") or a run of characters that contains none of those ("api").   *)
(* JSON null / Python None is the value None below; a JSON object is a     *)
(* function whose domain is the set of keys that are present.              *)
(* datetime.now() is the integer clock `now`, which ticks once a request.  *)
(***************************************************************************)
EXTENDS Integers, Sequences, FiniteSets, TLC

\* ---------------------------------------------------------------- bounds
MaxClock == 3          \* requests handled in one run of Spec
MaxCalls == 3          \* store calls started in one run of SpecC

\* ------------------------------------------------------- values and dicts
None == <<"None">>

\* the default of every location read: .get('location', 'N/A') and the like
NANull == None
NA == <<"N/A">>
EmptyStr == << >>
EmptyDict == << >>

Has(d, k) == k \in DOMAIN d

\* dict.get(key, default)
Get(d, k, default) == IF k \in DOMAIN d THEN d[k] ELSE default

\* Python truth value of a string or None
Truthy(v) == v # None /\ v # EmptyStr

\* str.replace(old, new) for a one-character old
replace(s, old, new) == [i \in 1..Len(s) |-> IF s[i] = old THEN new ELSE s[i]]

\* results of a computation that may raise
Ok(v) == [exc |-> FALSE, val |-> v]
Raise == [exc |-> TRUE, val |-> None]

\* -------------------------------------------------------------- the store
VARIABLES
    clients,        \* table clients: a set of rows
    ping_sessions,  \* table ping_sessions: rows in rowid order
    ping_results,   \* table ping_results: rows in id order (AUTOINCREMENT)
    heartbeats,     \* table heartbeats: rows in id order (AUTOINCREMENT)
    now,            \* the clock read by datetime.now()
    req,            \* the request being answered
    resp,           \* the response sent for req
    ret,            \* what the store call made for req returned
    stored,         \* history: successful uploads per client_id
    counted,        \* history: successful uploads per client_id that found the client row
    connected,      \* history: the client_ids returned per (device_id, device_model)
    lock,           \* PingDataServer.lock: 0 when free, else the thread holding it
    pc,             \* per thread: position in its store call
    call,           \* per thread: the store call it is making
    snap,           \* per thread: the database its connection works on
    overlap,        \* history: a thread took the lock while another was waiting for it
    started,        \* number of store calls started by threads
    serial,         \* history: the database had the calls run one by one in commit order
    leaked,         \* a connection dropped inside a write transaction is not yet reclaimed
    sent            \* number of responses written for req

dbvars == <<clients, ping_sessions, ping_results, heartbeats>>
httpvars == <<req, resp, ret, sent>>
histvars == <<stored, counted, connected>>
thrvars == <<lock, pc, call, snap, overlap, started, serial>>
vars == <<clients, ping_sessions, ping_results, heartbeats, now, req, resp, ret,
          stored, counted, connected, lock, pc, call, snap, overlap, started, serial,
          leaked, sent>>

\* the database as one value
DB == [clients |-> clients, ping_sessions |-> ping_sessions,
       ping_results |-> ping_results, heartbeats |-> heartbeats]

EmptyDB == [clients |-> {}, ping_sessions |-> << >>, ping_results |-> << >>,
            heartbeats |-> << >>]

\* A connection that is dropped without commit loses its open transaction:
\* no other connection ever sees what it wrote.
RollbackPartial(before, tx) == tx
Rollback(before, tx) == before

\* Points at which the storage engine itself can fail a call.
Faults == {"none", "connect", "commit"}

\* No except clause closes the connection (lines 173-175, 211-213, 267-269).
\* A connection dropped after a write statement keeps the database's write
\* lock until the garbage collector reclaims it; until then the first write
\* statement of any other connection fails with "database is locked" (after
\* the 5 s busy timeout of sqlite3.connect). lk: such a connection exists.
EngineFault(fault, lk) == IF lk /\ fault # "connect" THEN "locked" ELSE fault

\* the garbage collector reclaims the dropped connection: its transaction is
\* rolled back and the write lock of the database is free again
Collect ==
    /\ leaked
    /\ leaked' = FALSE
    /\ UNCHANGED <<dbvars, now, httpvars, histvars, thrvars>>

\* line 134: the f-string building client_id
make_client_id(device_info) ==
    IF ~Has(device_info, "device_id") THEN Raise                    \* KeyError
    ELSE IF Get(device_info, "device_model", EmptyStr) = None THEN Raise  \* AttributeError
    ELSE Ok(device_info["device_id"] \o <<"_">>
            \o replace(Get(device_info, "device_model", EmptyStr), " ", "_"))

\* lines 145-156: UPDATE clients ... WHERE client_id = ?
UpdateClientResetCount(c, device_info, t) ==
    [c EXCEPT !.last_seen = t,
              !.device_model = Get(device_info, "device_model", EmptyStr),
              !.android_version = Get(device_info, "android_version", EmptyStr),
              !.app_version = Get(device_info, "app_version", EmptyStr),
              !.last_location = Get(device_info, "location", NA),
              !.total_sessions = 0]
UpdateClient(c, device_info, t) ==
    [c EXCEPT !.last_seen = t,
              !.device_model = Get(device_info, "device_model", EmptyStr),
              !.android_version = Get(device_info, "android_version", EmptyStr),
              !.app_version = Get(device_info, "app_version", EmptyStr),
              !.last_location = Get(device_info, "location", NA)]

\* lines 160-167: INSERT INTO clients
NewClientEpoch(client_id, device_info, t) ==
    [client_id |-> client_id,
     device_id |-> device_info["device_id"],
     device_model |-> Get(device_info, "device_model", EmptyStr),
     android_version |-> Get(device_info, "android_version", EmptyStr),
     app_version |-> Get(device_info, "app_version", EmptyStr),
     first_seen |-> 0, last_seen |-> t,
     last_location |-> Get(device_info, "location", NA),
     total_sessions |-> 0]
NewClient(client_id, device_info, t) ==
    [client_id |-> client_id,
     device_id |-> device_info["device_id"],
     device_model |-> Get(device_info, "device_model", EmptyStr),
     android_version |-> Get(device_info, "android_version", EmptyStr),
     app_version |-> Get(device_info, "app_version", EmptyStr),
     first_seen |-> t, last_seen |-> t,
     last_location |-> Get(device_info, "location", NA),
     total_sessions |-> 0]

\* lines 130-175, the body under the lock: [ret, db, open]; open: the call
\* dropped its connection inside a write transaction
register_or_update_client(db, device_info, t, fault) ==
    LET cid == make_client_id(device_info)
        result == {c \in db.clients : c.client_id = cid.val}
        tx == IF result # {}
              THEN [db EXCEPT !.clients =
                       {IF c.client_id = cid.val THEN UpdateClient(c, device_info, t) ELSE c
                          : c \in db.clients}]
              ELSE [db EXCEPT !.clients = @ \cup {NewClient(cid.val, device_info, t)}]
    IN  IF fault \in {"connect", "locked"} \/ cid.exc
        THEN [ret |-> None, db |-> db, open |-> FALSE]
        ELSE IF fault = "commit"
        THEN [ret |-> None, db |-> Rollback(db, tx), open |-> TRUE]
        ELSE [ret |-> cid.val, db |-> tx, open |-> FALSE]

\* lines 184-194: INSERT INTO heartbeats
NewHeartbeat(db, heartbeat_data, t) ==
    [id |-> Len(db.heartbeats) + 1,
     client_id |-> Get(heartbeat_data, "client_id", EmptyStr),
     device_id |-> Get(heartbeat_data, "device_id", EmptyStr),
     app_status |-> Get(heartbeat_data, "app_status", <<"unknown">>),
     location |-> Get(heartbeat_data, "location", NA),
     timestamp |-> t]

\* lines 180-213, the body under the lock: [ret, db, open]
store_heartbeatSkip(db, heartbeat_data, t, fault) ==
    LET tx1 == IF Truthy(Get(heartbeat_data, "client_id", None))
               THEN [db EXCEPT !.heartbeats = Append(@, NewHeartbeat(db, heartbeat_data, t))]
               ELSE db
        tx2 == IF Truthy(Get(heartbeat_data, "client_id", None))
               THEN [tx1 EXCEPT !.clients =
                        {IF c.client_id = heartbeat_data["client_id"]
                         THEN [c EXCEPT !.last_seen = t,
                                        !.last_location = Get(heartbeat_data, "location", NA)]
                         ELSE c : c \in tx1.clients}]
               ELSE tx1
    IN  IF fault \in {"connect", "locked"}
        THEN [ret |-> FALSE, db |-> db, open |-> FALSE]
        ELSE IF fault = "commit"
        THEN [ret |-> FALSE, db |-> Rollback(db, tx2), open |-> TRUE]
        ELSE [ret |-> TRUE, db |-> tx2, open |-> FALSE]
store_heartbeat(db, heartbeat_data, t, fault) ==
    LET tx1 == [db EXCEPT !.heartbeats = Append(@, NewHeartbeat(db, heartbeat_data, t))]
        tx2 == IF Truthy(Get(heartbeat_data, "client_id", None))
               THEN [tx1 EXCEPT !.clients =
                        {IF c.client_id = heartbeat_data["client_id"]
                         THEN [c EXCEPT !.last_seen = t,
                                        !.last_location = Get(heartbeat_data, "location", NA)]
                         ELSE c : c \in tx1.clients}]
               ELSE tx1
    IN  IF fault \in {"connect", "locked"}
        THEN [ret |-> FALSE, db |-> db, open |-> FALSE]
        ELSE IF fault = "commit"
        THEN [ret |-> FALSE, db |-> Rollback(db, tx2), open |-> TRUE]
        ELSE [ret |-> TRUE, db |-> tx2, open |-> FALSE]

\* json.dumps of the settings object
json_dumps(d) == IF DOMAIN d = {} THEN <<"{}">> ELSE <<"{", "...", "}">>

\* the keys store_ping_session reads with session_data[...] (lines 231-234)
IndexedFields == {"session_id", "client_id", "host", "protocol", "start_time", "end_time",
                  "duration_seconds", "packets_sent", "packets_received",
                  "packet_loss_percent"}

\* lines 230-239: the row bound to INSERT INTO ping_sessions
NewSession(session_data) ==
    [session_id |-> session_data["session_id"],
     client_id |-> session_data["client_id"],
     host |-> session_data["host"],
     protocol |-> session_data["protocol"],
     start_time |-> session_data["start_time"],
     end_time |-> session_data["end_time"],
     duration_seconds |-> session_data["duration_seconds"],
     packets_sent |-> session_data["packets_sent"],
     packets_received |-> session_data["packets_received"],
     packet_loss_percent |-> session_data["packet_loss_percent"],
     avg_rtt_ms |-> Get(session_data, "avg_rtt_ms", 0),
     min_rtt_ms |-> Get(session_data, "min_rtt_ms", 0),
     max_rtt_ms |-> Get(session_data, "max_rtt_ms", 0),
     total_bytes |-> Get(session_data, "total_bytes", 0),
     avg_bandwidth_bps |-> Get(session_data, "avg_bandwidth_bps", 0),
     start_location |-> Get(session_data, "start_location", NA),
     end_location |-> Get(session_data, "end_location", NA),
     settings_json |-> json_dumps(Get(session_data, "settings", EmptyDict))]

\* lines 223-239: INSERT INTO ping_sessions; session_id is the PRIMARY KEY
\* (a NULL key never conflicts in SQLite). [exc, tx, open]: the KeyError is
\* raised while the parameters are built, before the statement runs; the
\* IntegrityError is raised by the statement, inside its transaction
InsertSessionOrReplace(tx, session_data) ==
    IF IndexedFields \ DOMAIN session_data # {}
    THEN [exc |-> TRUE, tx |-> tx, open |-> FALSE]
    ELSE [exc |-> FALSE, open |-> TRUE,
          tx |-> [tx EXCEPT !.ping_sessions =
                     Append(SelectSeq(@, LAMBDA s : s.session_id # session_data["session_id"]),
                            NewSession(session_data))]]
InsertSessionForeignKey(tx, session_data) ==
    IF IndexedFields \ DOMAIN session_data # {}
    THEN [exc |-> TRUE, tx |-> tx, open |-> FALSE]
    ELSE IF \/ session_data["session_id"] # None
               /\ \E i \in DOMAIN tx.ping_sessions :
                      tx.ping_sessions[i].session_id = session_data["session_id"]
            \/ \A c \in tx.clients : c.client_id # session_data["client_id"]
    THEN [exc |-> TRUE, tx |-> tx, open |-> TRUE]
    ELSE [exc |-> FALSE, open |-> TRUE,
          tx |-> [tx EXCEPT !.ping_sessions = Append(@, NewSession(session_data))]]
InsertSession(tx, session_data) ==
    IF IndexedFields \ DOMAIN session_data # {}
    THEN [exc |-> TRUE, tx |-> tx, open |-> FALSE]                   \* KeyError
    ELSE IF session_data["session_id"] # None
            /\ \E i \in DOMAIN tx.ping_sessions :
                   tx.ping_sessions[i].session_id = session_data["session_id"]
    THEN [exc |-> TRUE, tx |-> tx, open |-> TRUE]                    \* IntegrityError
    ELSE [exc |-> FALSE, open |-> TRUE,
          tx |-> [tx EXCEPT !.ping_sessions = Append(@, NewSession(session_data))]]

\* lines 242-247: UPDATE clients SET total_sessions = total_sessions + 1, last_location = ?
CountSessionNoIncrement(tx, session_data) ==
    [tx EXCEPT !.clients =
        {IF c.client_id = session_data["client_id"]
         THEN [c EXCEPT !.last_location = Get(session_data, "end_location", NA)]
         ELSE c : c \in tx.clients}]
CountSession(tx, session_data) ==
    [tx EXCEPT !.clients =
        {IF c.client_id = session_data["client_id"]
         THEN [c EXCEPT !.total_sessions = @ + 1,
                        !.last_location = Get(session_data, "end_location", NA)]
         ELSE c : c \in tx.clients}]

\* lines 256-261: the row bound to INSERT INTO ping_results. An entry of the
\* JSON list is [kind, obj]: kind "object" with its keys in obj, or another
\* JSON type, which has no .get
NewResult(tx, session_id, result) ==
    [id |-> Len(tx.ping_results) + 1,
     session_id |-> session_id,
     timestamp |-> Get(result.obj, "timestamp", EmptyStr),
     sequence_number |-> Get(result.obj, "sequence", 0),
     success |-> Get(result.obj, "success", FALSE),
     rtt_ms |-> Get(result.obj, "rtt_ms", 0),
     location |-> Get(result.obj, "location", NA),
     error_message |-> Get(result.obj, "error_message", EmptyStr)]

\* lines 251-261: the loop over session_data['ping_results'], from entry i on
RECURSIVE InsertResults(_, _, _, _)
InsertResults(tx, session_id, results, i) ==
    IF i > Len(results) THEN [exc |-> FALSE, tx |-> tx]
    ELSE IF results[i].kind # "object" THEN [exc |-> TRUE, tx |-> tx]   \* AttributeError
    ELSE InsertResults(
            [tx EXCEPT !.ping_results = Append(@, NewResult(tx, session_id, results[i]))],
            session_id, results, i + 1)

\* lines 218-269, the body under the lock: [ret, db, open]
store_ping_session(db, session_data, fault) ==
    LET s1 == InsertSession(db, session_data)
        s2 == CountSession(s1.tx, session_data)
        s3 == IF Has(session_data, "ping_results")
              THEN InsertResults(s2, session_data["session_id"],
                                 session_data["ping_results"], 1)
              ELSE [exc |-> FALSE, tx |-> s2]
    IN  IF fault = "connect" THEN [ret |-> FALSE, db |-> db, open |-> FALSE]
        ELSE IF IndexedFields \ DOMAIN session_data = {} /\ fault = "locked"
        THEN [ret |-> FALSE, db |-> db, open |-> FALSE]
        ELSE IF s1.exc THEN [ret |-> FALSE, db |-> Rollback(db, s1.tx), open |-> s1.open]
        ELSE IF s3.exc \/ fault = "commit"
        THEN [ret |-> FALSE, db |-> Rollback(db, s3.tx), open |-> TRUE]
        ELSE [ret |-> TRUE, db |-> s3.tx, open |-> FALSE]

\* COUNT(s.session_id) of the LEFT JOIN on client_id (NULL session_ids are not counted)
actual_sessions(db, c) ==
    Cardinality({i \in DOMAIN db.ping_sessions :
                    /\ db.ping_sessions[i].client_id = c.client_id
                    /\ db.ping_sessions[i].session_id # None})

WithActual(db, c) == c @@ ("actual_sessions" :> actual_sessions(db, c))

\* lines 271-305: [kind, rows]. kind "row": the dict of the one row in rows;
\* kind "list": the list of the rows in rows (SQL leaves their order open);
\* kind "none": None. No lock is taken.
get_client_stats(db, client_id, fault) ==
    IF fault # "none" THEN [kind |-> "none", rows |-> {}]
    ELSE IF Truthy(client_id)
    THEN LET result == {c \in db.clients : c.client_id = client_id}
         IN  IF result # {}
             THEN [kind |-> "row", rows |-> {WithActual(db, c) : c \in result}]
             ELSE [kind |-> "none", rows |-> {}]
    ELSE [kind |-> "list", rows |-> {WithActual(db, c) : c \in db.clients}]

\* truth value of what get_client_stats returned
StatsTruthy(v) == v.kind = "row" \/ (v.kind = "list" /\ v.rows # {})

\* lines 307-342: the two GROUP BY counts, each as a set of [location, count]
\* (NULL and 'N/A' locations are left out by the WHERE clause)
get_location_stats(db, fault) ==
    IF fault # "none" THEN [ok |-> FALSE, sessions_by_location |-> {}, clients_by_location |-> {}]
    ELSE [ok |-> TRUE,
          sessions_by_location |->
            {[location |-> l,
              count |-> Cardinality({i \in DOMAIN db.ping_sessions :
                                        db.ping_sessions[i].start_location = l})]
               : l \in {db.ping_sessions[i].start_location : i \in DOMAIN db.ping_sessions}
                       \ {NA, None}},
          clients_by_location |->
            {[location |-> l,
              count |-> Cardinality({c \in db.clients : c.last_location = l})]
               : l \in {c.last_location : c \in db.clients} \ {NA, None}}]

\* ------------------------------------------------------------ the handlers
\* request paths, already cut into tokens
P_root == <<"/">>
P_api == <<"/", "api">>
P_status == <<"/", "api", "/", "status">>
P_ping == <<"/", "api", "/", "ping">>
P_clients == <<"/", "api", "/", "clients">>
P_locations == <<"/", "api", "/", "locations">>
P_clients_slash == <<"/", "api", "/", "clients", "/">>
P_connect == <<"/", "api", "/", "connect">>
P_heartbeat == <<"/", "api", "/", "heartbeat">>
P_upload == <<"/", "api", "/", "upload-session">>

\* str.startswith
startswith(s, prefix) ==
    Len(s) >= Len(prefix) /\ SubSeq(s, 1, Len(prefix)) = prefix

\* path.split('/')[-1]: what follows the last "/"
LastSlash(s) == IF \E i \in DOMAIN s : s[i] = "/"
                THEN CHOOSE i \in DOMAIN s : s[i] = "/" /\ \A j \in DOMAIN s : s[j] = "/" => j <= i
                ELSE 0
last_segment(s) == SubSeq(s, LastSlash(s) + 1, Len(s))

NoReq == [method |-> "NONE", path |-> << >>, malformed |-> FALSE, body |-> EmptyDict]
NoResp == [status |-> 0, headers |-> EmptyDict, body |-> EmptyDict]
NoRet == [op |-> "none", fault |-> "none", ok |-> FALSE, client_id |-> None, open |-> FALSE]

\* lines 413-425: json.loads of the body; a body that is not JSON raises ValueError
parse_json_body(r) == IF r.malformed THEN [exc |-> TRUE, val |-> EmptyDict]
                      ELSE [exc |-> FALSE, val |-> r.body]

\* lines 392-401 (Content-Length, the byte length of the body, is left out)
send_json_response(status_code, data) ==
    [status |-> status_code,
     headers |-> [h \in {"Content-Type", "Access-Control-Allow-Origin"} |->
                    IF h = "Content-Type" THEN "application/json" ELSE "*"],
     body |-> data]

\* lines 403-411
send_json_error(status_code, message, t) ==
    send_json_response(status_code,
        [error |-> TRUE, status_code |-> status_code, message |-> message, timestamp |-> t])

Ret(op, fault, ok, client_id) ==
    [op |-> op, fault |-> fault, ok |-> ok, client_id |-> client_id, open |-> FALSE]

\* history counters keyed by client_id
Count(bag, k) == IF k \in DOMAIN bag THEN bag[k] ELSE 0
Inc(bag, k) == IF k \in DOMAIN bag THEN [bag EXCEPT ![k] = @ + 1] ELSE bag @@ (k :> 1)

\* the identity a connect call presents: device_id and device_model (or its absence)
ConnectKey(device_info) ==
    <<device_info["device_id"], Get(device_info, "device_model", <<"(absent)">>)>>
Push(hist, k, v) == IF k \in DOMAIN hist THEN [hist EXCEPT ![k] = Append(@, v)]
                    ELSE hist @@ (k :> <<v>>)

\* one request handled: the handler has written the responses of `responses`
\* one after the other (the client reads the first), the store call (if any)
\* has left the database as db2, and the clock has moved on
AnsweredAll(r, responses, r_ret, db2, stored2, counted2) ==
    /\ now < MaxClock
    /\ now' = now + 1
    /\ req' = r
    /\ resp' = IF responses = << >> THEN NoResp ELSE responses[1]
    /\ sent' = Len(responses)
    /\ ret' = r_ret
    /\ clients' = db2.clients
    /\ ping_sessions' = db2.ping_sessions
    /\ ping_results' = db2.ping_results
    /\ heartbeats' = db2.heartbeats
    /\ stored' = stored2
    /\ counted' = counted2
    /\ connected' = IF r_ret.op = "register_or_update_client" /\ r_ret.ok
                    THEN Push(connected, ConnectKey(r.body), r_ret.client_id)
                    ELSE connected
    /\ leaked' = (leaked \/ r_ret.open)
    /\ UNCHANGED thrvars

\* a handler path that calls send_json_response / send_json_error once
Answered(r, response, r_ret, db2, stored2, counted2) ==
    AnsweredAll(r, <<response>>, r_ret, db2, stored2, counted2)

\* lines 481-510
handle_connect(r, fault) ==
    LET parsed == parse_json_body(r)
        out == register_or_update_client(DB, parsed.val, now, EngineFault(fault, leaked))
    IN  IF parsed.exc
        THEN Answered(r, send_json_error(400, <<"Invalid JSON in request body">>, now),
                      NoRet, DB, stored, counted)
        ELSE Answered(r,
                 IF Truthy(out.ret)
                 THEN send_json_response(200,
                        [status |-> <<"connected">>,
                         message |-> <<"Device registered successfully with location">>,
                         client_id |-> out.ret,
                         location_recorded |-> Get(parsed.val, "location", NA),
                         timestamp |-> now, server_time |-> now])
                 ELSE send_json_error(500, <<"Failed to register client">>, now),
                 [Ret("register_or_update_client", EngineFault(fault, leaked),
                      Truthy(out.ret), out.ret) EXCEPT !.open = out.open],
                 out.db, stored, counted)

\* lines 512-536: the value store_heartbeat returns is not looked at
handle_heartbeat(r, fault) ==
    LET parsed == parse_json_body(r)
        out == store_heartbeat(DB, parsed.val, now, EngineFault(fault, leaked))
    IN  IF parsed.exc
        THEN Answered(r, send_json_error(500, <<"Internal server error">>, now),
                      NoRet, DB, stored, counted)
        ELSE Answered(r,
                 send_json_response(200,
                        [heartbeat |-> <<"acknowledged">>,
                         server_status |-> <<"online">>,
                         location_recorded |-> Get(parsed.val, "location", NA),
                         timestamp |-> now,
                         next_heartbeat_in_seconds |-> 3600]),
                 [Ret("store_heartbeat", EngineFault(fault, leaked), out.ret, None)
                      EXCEPT !.open = out.open],
                 out.db, stored, counted)

\* lines 544-545
required_fields == <<"session_id", "client_id", "host", "protocol",
                     "start_time", "end_time", "packets_sent", "packets_received">>

\* lines 547-550: the first field of required_fields that session_data lacks (0: none)
FirstMissingLast(session_data) ==
    IF \A i \in DOMAIN required_fields : Has(session_data, required_fields[i]) THEN 0
    ELSE CHOOSE i \in DOMAIN required_fields :
            /\ ~Has(session_data, required_fields[i])
            /\ \A j \in DOMAIN required_fields :
                  ~Has(session_data, required_fields[j]) => j <= i
FirstMissing(session_data) ==
    IF \A i \in DOMAIN required_fields : Has(session_data, required_fields[i]) THEN 0
    ELSE CHOOSE i \in DOMAIN required_fields :
            /\ ~Has(session_data, required_fields[i])
            /\ \A j \in DOMAIN required_fields :
                  ~Has(session_data, required_fields[j]) => i <= j

\* lines 547-550: the responses written by the loop over required_fields; the
\* return after send_json_error ends the handler at the first missing field
missing_field_errorsNoReturn(session_data, t) ==
    LET missing == {i \in DOMAIN required_fields : ~Has(session_data, required_fields[i])}
        RECURSIVE from(_)
        from(i) == IF i > Len(required_fields) THEN << >>
                   ELSE IF i \in missing
                   THEN <<send_json_error(400, <<"Missing required field: ",
                                                 required_fields[i]>>, t)>> \o from(i + 1)
                   ELSE from(i + 1)
    IN  from(1)
missing_field_errors(session_data, t) ==
    LET missing == FirstMissing(session_data)
    IN  IF missing = 0 THEN << >>
        ELSE <<send_json_error(400, <<"Missing required field: ",
                                      required_fields[missing]>>, t)>>

\* lines 538-577
handle_upload_session(r, fault) ==
    LET parsed == parse_json_body(r)
        session_data == parsed.val
        missing == FirstMissing(session_data)
        out == store_ping_session(DB, session_data, EngineFault(fault, leaked))
        found == \E c \in clients : c.client_id = session_data["client_id"]
    IN  IF parsed.exc
        THEN Answered(r, send_json_error(400, <<"Invalid JSON in request body">>, now),
                      NoRet, DB, stored, counted)
        ELSE IF missing # 0
        THEN AnsweredAll(r, missing_field_errors(session_data, now),
                         NoRet, DB, stored, counted)
        ELSE Answered(r,
                 IF out.ret
                 THEN send_json_response(200,
                        [status |-> <<"success">>,
                         message |-> <<"Session data uploaded successfully with location">>,
                         session_id |-> session_data["session_id"],
                         start_location |-> Get(session_data, "start_location", NA),
                         end_location |-> Get(session_data, "end_location", NA),
                         timestamp |-> now])
                 ELSE send_json_error(500, <<"Failed to store session data">>, now),
                 [Ret("store_ping_session", EngineFault(fault, leaked), out.ret, None)
                      EXCEPT !.open = out.open],
                 out.db,
                 IF out.ret THEN Inc(stored, session_data["client_id"]) ELSE stored,
                 IF out.ret /\ found THEN Inc(counted, session_data["client_id"]) ELSE counted)

\* lines 579-596
handle_get_clients(r, fault) ==
    LET cs == get_client_stats(DB, None, fault)
    IN  Answered(r,
            send_json_response(200,
                [status |-> <<"success">>,
                 clients |-> cs,
                 total_clients |-> IF StatsTruthy(cs) THEN Cardinality(cs.rows) ELSE 0,
                 timestamp |-> now]),
            Ret("get_client_stats", fault, cs.kind # "none", None),
            DB, stored, counted)

\* lines 598-615
handle_get_client_data(r, client_id, fault) ==
    LET client_data == get_client_stats(DB, client_id, fault)
    IN  Answered(r,
            IF StatsTruthy(client_data)
            THEN send_json_response(200,
                    [status |-> <<"success">>, client |-> client_data, timestamp |-> now])
            ELSE send_json_error(404, <<"Client ">> \o client_id \o <<" not found">>, now),
            Ret("get_client_stats", fault, client_data.kind # "none", client_id),
            DB, stored, counted)

\* lines 617-634
handle_get_locations(r, fault) ==
    LET location_stats == get_location_stats(DB, fault)
    IN  Answered(r,
            IF location_stats.ok
            THEN send_json_response(200,
                    [status |-> <<"success">>,
                     location_statistics |->
                        [sessions_by_location |-> location_stats.sessions_by_location,
                         clients_by_location |-> location_stats.clients_by_location],
                     timestamp |-> now])
            ELSE send_json_error(500, <<"Failed to retrieve location statistics">>, now),
            Ret("get_location_stats", fault, location_stats.ok, None),
            DB, stored, counted)

\* lines 427-479: handle_api_info, handle_status, handle_ping read no table
handle_static(r, name) ==
    Answered(r, send_json_response(200, [endpoint |-> name, timestamp |-> now]),
             NoRet, DB, stored, counted)

\* lines 357-376
do_GET(r, fault) ==
    /\ r.method = "GET"
    /\ \/ r.path \in {P_root, P_api} /\ fault = "none" /\ handle_static(r, "info")
       \/ r.path = P_status /\ fault = "none" /\ handle_static(r, "status")
       \/ r.path = P_ping /\ fault = "none" /\ handle_static(r, "ping")
       \/ r.path = P_clients /\ handle_get_clients(r, fault)
       \/ r.path = P_locations /\ handle_get_locations(r, fault)
       \/ /\ r.path \notin {P_root, P_api, P_status, P_ping, P_clients, P_locations}
          /\ startswith(r.path, P_clients_slash)
          /\ handle_get_client_data(r, last_segment(r.path), fault)
       \/ /\ r.path \notin {P_root, P_api, P_status, P_ping, P_clients, P_locations}
          /\ ~startswith(r.path, P_clients_slash)
          /\ fault = "none"
          /\ Answered(r, send_json_error(404, <<"Endpoint not found">>, now),
                      NoRet, DB, stored, counted)

\* lines 378-390
do_POST(r, fault) ==
    /\ r.method = "POST"
    /\ \/ r.path = P_connect /\ handle_connect(r, fault)
       \/ r.path = P_heartbeat /\ handle_heartbeat(r, fault)
       \/ r.path = P_upload /\ handle_upload_session(r, fault)
       \/ /\ r.path \notin {P_connect, P_heartbeat, P_upload}
          /\ fault = "none"
          /\ Answered(r, send_json_error(404, <<"Endpoint not found">>, now),
                      NoRet, DB, stored, counted)

\* lines 349-355
do_OPTIONSAsJson(r) ==
    /\ r.method = "OPTIONS"
    /\ Answered(r, send_json_response(200, EmptyDict), NoRet, DB, stored, counted)
do_OPTIONS(r) ==
    /\ r.method = "OPTIONS"
    /\ Answered(r,
          [status |-> 200,
           headers |-> [h \in {"Access-Control-Allow-Origin", "Access-Control-Allow-Methods",
                               "Access-Control-Allow-Headers"} |->
                          IF h = "Access-Control-Allow-Origin" THEN "*"
                          ELSE IF h = "Access-Control-Allow-Methods"
                          THEN "GET, POST, PUT, DELETE, OPTIONS"
                          ELSE "Content-Type, Authorization"],
           body |-> EmptyDict],
          NoRet, DB, stored, counted)

\* ------------------------------------------------------------ the requests
Paris == <<"Paris">>
OptField(k, vals) == {EmptyDict} \cup {k :> v : v \in vals}
Drop(d, K) == [k \in DOMAIN d \ K |-> d[k]]

\* device_id / device_model pairs: <<"a">> with the model " " and <<"a", "_">> with
\* no model both give the client_id "a__"
ConnectBodies ==
    {[device_id |-> <<"a">>], [device_id |-> <<"a", "_">>]}
    \cup {[device_id |-> <<"a">>, device_model |-> <<" ">>]}
    \cup {[device_id |-> <<"a">>, location |-> l] : l \in {Paris, None, EmptyStr}}
    \cup {[device_id |-> <<"a">>, device_model |-> <<"Pixel", " ", "7">>,
           android_version |-> <<"13">>, app_version |-> <<"2.1">>, location |-> Paris]}
    \cup {[device_id |-> <<"a">>, device_model |-> None]}
    \cup {EmptyDict, [device_model |-> <<"_">>, location |-> Paris]}

KnownClientIds == {<<"a", "_">>, <<"a", "_", "_">>}

HeartbeatBodies ==
    OptField("client_id", {<<"a", "_">>, EmptyStr})
    \cup {[client_id |-> <<"a", "_">>, location |-> EmptyStr]}
    \cup {[client_id |-> <<"a", "_">>, device_id |-> <<"a">>, app_status |-> <<"running">>,
           location |-> Paris]}

BaseSession ==
    [session_id |-> <<"s1">>, client_id |-> <<"a", "_">>, host |-> <<"example.org">>,
     protocol |-> <<"ICMP">>, start_time |-> <<"t0">>, end_time |-> <<"t1">>,
     packets_sent |-> 4, packets_received |-> 3,
     duration_seconds |-> 10, packet_loss_percent |-> 25]

Result1 == [kind |-> "object",
            obj |-> [timestamp |-> <<"t0">>, sequence |-> 1, success |-> TRUE,
                     rtt_ms |-> 12, location |-> Paris]]
Result2 == [kind |-> "object", obj |-> EmptyDict]
NotAnObject == [kind |-> "string", obj |-> EmptyDict]
ResultLists == {<< >>, <<Result1, Result2>>, <<Result1, NotAnObject>>}

RequiredSet == {required_fields[i] : i \in DOMAIN required_fields}

\* sets of required fields to leave out: each one alone, and some pairs
MissingSets ==
    {{required_fields[i]} : i \in DOMAIN required_fields}
    \cup {{"session_id", "client_id"}, {"host", "packets_received"}, {"end_time", "packets_sent"}}

UploadBodies ==
    {[BaseSession EXCEPT !.session_id = sid, !.client_id = c] :
        sid \in {<<"s1">>, <<"s2">>}, c \in KnownClientIds}
    \cup {BaseSession @@ [start_location |-> None, end_location |-> None],
          BaseSession @@ [end_location |-> Paris]}
    \cup {[BaseSession EXCEPT !.session_id = None] @@ ("ping_results" :> <<Result1>>)}
    \cup {BaseSession @@ ("ping_results" :> rs) : rs \in ResultLists}
    \cup {BaseSession @@ [start_location |-> <<"Lyon">>, end_location |-> Paris,
                          settings |-> EmptyDict, avg_rtt_ms |-> 12, min_rtt_ms |-> 10,
                          max_rtt_ms |-> 15, total_bytes |-> 256, avg_bandwidth_bps |-> 64]}
    \cup {Drop(BaseSession, K) : K \in SUBSET {"duration_seconds", "packet_loss_percent"}}
    \cup {Drop(BaseSession @@ ("ping_results" :> <<Result1>>), K) : K \in MissingSets}
    \cup {EmptyDict}

Request(method, path, malformed, body) ==
    [method |-> method, path |-> path, malformed |-> malformed, body |-> body]

PostRequests ==
    {Request("POST", P_connect, FALSE, b) : b \in ConnectBodies}
    \cup {Request("POST", P_heartbeat, FALSE, b) : b \in HeartbeatBodies}
    \cup {Request("POST", P_upload, FALSE, b) : b \in UploadBodies}
    \cup {Request("POST", p, TRUE, EmptyDict) : p \in {P_connect, P_heartbeat, P_upload}}
    \cup {Request("POST", P_clients, FALSE, EmptyDict)}

GetPaths ==
    {P_root, P_api, P_status, P_ping, P_clients, P_locations, P_clients_slash,
     <<"/", "nope">>}
    \cup {P_clients_slash \o id : id \in {<<"a", "_">>, <<"unknown", "_", "id">>}}
    \cup {P_clients_slash \o <<"x", "/">> \o id : id \in {<<"a", "_">>}}

GetRequests == {Request("GET", p, FALSE, EmptyDict) : p \in GetPaths}

OptionsRequests == {Request("OPTIONS", p, FALSE, EmptyDict) : p \in {P_api, <<"/", "nope">>}}

\* the requests on which the storage engine is also made to fail
FaultRequests ==
    {Request("POST", P_connect, FALSE, b) :
        b \in {[device_id |-> <<"a">>, location |-> Paris]}}
    \cup {Request("POST", P_heartbeat, FALSE, [client_id |-> <<"a", "_">>])}
    \cup {Request("POST", P_upload, FALSE, BaseSession @@ ("ping_results" :> <<Result1, Result2>>))}
    \cup {Request("GET", p, FALSE, EmptyDict) :
        p \in {P_clients, P_locations, P_clients_slash \o <<"a", "_">>}}

FaultsFor(r) == IF r \in FaultRequests THEN Faults ELSE {"none"}

\* ------------------------------------------------------------------ threads
\* Threads calling the three mutating operations of one PingDataServer.
Threads == {1, 2}

NoCall == [op |-> "none", arg |-> EmptyDict, fault |-> "none", ok |-> FALSE, client_id |-> None]

ThreadCalls ==
    {[NoCall EXCEPT !.op = "register_or_update_client", !.arg = a] :
        a \in {[device_id |-> <<"a">>], EmptyDict}}
    \cup {[NoCall EXCEPT !.op = "store_heartbeat", !.arg = a] :
        a \in {[client_id |-> <<"a", "_">>, location |-> Paris]}}
    \cup {[NoCall EXCEPT !.op = "store_ping_session", !.arg = a] :
        a \in {BaseSession, [BaseSession EXCEPT !.session_id = <<"s2">>],
               BaseSession @@ ("ping_results" :> <<Result1, NotAnObject>>)}}
    \cup {[NoCall EXCEPT !.op = "store_ping_session", !.arg = BaseSession, !.fault = "commit"]}

\* the body of a store call run in one piece on database db at time t:
\* [ok, client_id, db, open]
RunCall(c, db, t) ==
    IF c.op = "register_or_update_client"
    THEN LET out == register_or_update_client(db, c.arg, t, c.fault)
         IN  [ok |-> Truthy(out.ret), client_id |-> out.ret, db |-> out.db, open |-> out.open]
    ELSE IF c.op = "store_heartbeat"
    THEN LET out == store_heartbeat(db, c.arg, t, c.fault)
         IN  [ok |-> out.ret, client_id |-> None, db |-> out.db, open |-> out.open]
    ELSE LET out == store_ping_session(db, c.arg, c.fault)
         IN  [ok |-> out.ret, client_id |-> None, db |-> out.db, open |-> out.open]

\* threading.Lock: acquire blocks while the lock is held
LockNeverHeld(l) == TRUE
LockFree(l) == l = 0

\* a thread calls one of the store's mutating operations
Call(t, c) ==
    /\ pc[t] = "idle"
    /\ started < MaxCalls
    /\ started' = started + 1
    /\ pc' = [pc EXCEPT ![t] = "wait"]
    /\ call' = [call EXCEPT ![t] = c]
    /\ UNCHANGED <<dbvars, now, httpvars, histvars, lock, snap, overlap, serial, leaked>>

\* lines 129, 179, 217: with self.lock
Acquire(t) ==
    /\ pc[t] = "wait"
    /\ LockFree(lock)
    /\ lock' = t
    /\ pc' = [pc EXCEPT ![t] = "locked"]
    /\ overlap' = (overlap \/ \E u \in Threads \ {t} : pc[u] = "wait")
    /\ UNCHANGED <<dbvars, now, httpvars, histvars, call, snap, started, serial, leaked>>

\* lines 131-132, 181-182, 219-220: the connection opened by this call reads
\* the database as it is now
Begin(t) ==
    /\ pc[t] = "locked"
    /\ snap' = [snap EXCEPT ![t] = DB]
    /\ pc' = [pc EXCEPT ![t] = "body"]
    /\ UNCHANGED <<dbvars, now, httpvars, histvars, lock, call, overlap, started, serial, leaked>>

\* the statements of the body up to conn.commit(), or up to the except clause
Commit(t) ==
    /\ pc[t] = "body"
    /\ LET made == [call[t] EXCEPT !.fault = EngineFault(@, leaked)]
           out == RunCall(made, snap[t], now)
           one == RunCall(made, serial, now)
           cid == call[t].arg["client_id"]
           upload == call[t].op = "store_ping_session" /\ out.ok
       IN  /\ clients' = out.db.clients
           /\ ping_sessions' = out.db.ping_sessions
           /\ ping_results' = out.db.ping_results
           /\ heartbeats' = out.db.heartbeats
           /\ call' = [call EXCEPT ![t].ok = out.ok, ![t].client_id = out.client_id]
           /\ serial' = one.db
           /\ stored' = IF upload THEN Inc(stored, cid) ELSE stored
           /\ counted' = IF upload /\ \E c \in snap[t].clients : c.client_id = cid
                         THEN Inc(counted, cid) ELSE counted
           /\ connected' = IF call[t].op = "register_or_update_client" /\ out.ok
                           THEN Push(connected, ConnectKey(call[t].arg), out.client_id)
                           ELSE connected
           /\ leaked' = (leaked \/ out.open)
    /\ now' = now + 1
    /\ pc' = [pc EXCEPT ![t] = "unlock"]
    /\ UNCHANGED <<httpvars, lock, snap, overlap, started>>

\* leaving the with block, on return from the try or from the except clause
ReleaseOnSuccess(t) ==
    /\ pc[t] = "unlock"
    /\ call[t].ok
    /\ lock' = 0
    /\ pc' = [pc EXCEPT ![t] = "idle"]
    /\ UNCHANGED <<dbvars, now, httpvars, histvars, call, snap, overlap, started, serial, leaked>>
Release(t) ==
    /\ pc[t] = "unlock"
    /\ lock' = 0
    /\ pc' = [pc EXCEPT ![t] = "idle"]
    /\ UNCHANGED <<dbvars, now, httpvars, histvars, call, snap, overlap, started, serial, leaked>>

Init ==
    /\ clients = {}
    /\ ping_sessions = << >>
    /\ ping_results = << >>
    /\ heartbeats = << >>
    /\ now = 0
    /\ req = NoReq
    /\ resp = NoResp
    /\ ret = NoRet
    /\ stored = EmptyDict
    /\ counted = EmptyDict
    /\ connected = EmptyDict
    /\ lock = 0
    /\ pc = [t \in Threads |-> "idle"]
    /\ call = [t \in Threads |-> NoCall]
    /\ snap = [t \in Threads |-> EmptyDB]
    /\ overlap = FALSE
    /\ started = 0
    /\ serial = EmptyDB
    /\ leaked = FALSE
    /\ sent = 0

\* HTTPServer answers one request at a time
Next ==
    \/ \E r \in GetRequests : \E fault \in FaultsFor(r) : do_GET(r, fault)
    \/ \E r \in PostRequests : \E fault \in FaultsFor(r) : do_POST(r, fault)
    \/ \E r \in OptionsRequests : do_OPTIONS(r)
    \/ Collect

Spec == Init /\ [][Next]_vars

\* the store called from several threads at once
NextC ==
    \/ \E t \in Threads, c \in ThreadCalls : Call(t, c)
    \/ \E t \in Threads : Acquire(t)
    \/ \E t \in Threads : Begin(t)
    \/ \E t \in Threads : Commit(t)
    \/ \E t \in Threads : Release(t)
    \/ Collect

SpecC == Init /\ [][NextC]_vars

\* the same threads under fair scheduling: a thread that can take a step of
\* its call eventually takes it (nothing obliges a thread to start a call or
\* the garbage collector to run)
SpecCFair ==
    /\ Init /\ [][NextC]_vars
    /\ \A t \in Threads :
          /\ WF_vars(Acquire(t))
          /\ WF_vars(Begin(t))
          /\ WF_vars(Commit(t))
          /\ WF_vars(Release(t))

\* ================================================================== claims
IsPost(r, path) == r.method = "POST" /\ r.path = path

\* C1 as stated: in every reachable state each client row's total_sessions
\* equals the number of successful upload-session calls made so far with that
\* row's client_id.
C1_TotalEqualsAllUploads ==
    \A c \in clients : c.total_sessions = Count(stored, c.client_id)

\* C1 amended: in every reachable state each client row's total_sessions
\* equals the number of successful upload-session calls with that row's
\* client_id that were made while the row existed.
C1_TotalEqualsUploadsSinceRegistered ==
    \A c \in clients : c.total_sessions = Count(counted, c.client_id)

C1_Witness ==
    /\ IsPost(req, P_upload) /\ resp.status = 200
    /\ \E c \in clients : c.client_id = req.body["client_id"] /\ c.total_sessions = 2

\* C2: successful connect calls with the same device_id and device_model
\* all returned the same client_id, exactly one client row has that
\* client_id, and a connect step leaves the total_sessions of every client
\* row as it was.
C2_Step ==
    /\ \A k \in DOMAIN connected' :
          /\ \A i \in DOMAIN connected'[k] : connected'[k][i] = connected'[k][1]
          /\ Cardinality({c \in clients' : c.client_id = connected'[k][1]}) = 1
    /\ IsPost(req', P_connect) =>
          \A c \in clients : \E d \in clients' :
              d.client_id = c.client_id /\ d.total_sessions = c.total_sessions
C2_IdempotentConnect == [][C2_Step]_vars

C2_Witness ==
    /\ IsPost(req, P_connect) /\ resp.status = 200
    /\ Len(connected[ConnectKey(req.body)]) = 2
    /\ \E c \in clients : c.client_id = resp.body.client_id /\ c.total_sessions = 1

\* the order in which C3 names the eight required fields
C3_Order == <<"session_id", "client_id", "host", "protocol",
              "start_time", "end_time", "packets_sent", "packets_received">>
C3_Missing(body) == {i \in DOMAIN C3_Order : C3_Order[i] \notin DOMAIN body}

\* C3: an upload-session request (with a JSON object body) that lacks any of
\* the eight required fields is answered 400 with a message naming the first
\* missing field in the stated order, and changes no table.
C3_Step ==
    (IsPost(req', P_upload) /\ ~req'.malformed /\ C3_Missing(req'.body) # {}) =>
        /\ resp'.status = 400
        /\ \E i \in C3_Missing(req'.body) :
              /\ \A j \in C3_Missing(req'.body) : i <= j
              /\ resp'.body.message = <<"Missing required field: ", C3_Order[i]>>
        /\ UNCHANGED dbvars
C3_MissingFieldRejected == [][C3_Step]_vars

C3_Witness ==
    /\ IsPost(req, P_upload) /\ ~req.malformed
    /\ Cardinality(C3_Missing(req.body)) = 2
    /\ "ping_results" \in DOMAIN req.body
    /\ resp.status = 400
    /\ clients # {} /\ ping_sessions # << >>

\* every entry of the optional ping_results list is a JSON object
C4_WellFormedResults(body) ==
    "ping_results" \in DOMAIN body =>
        \A i \in DOMAIN body["ping_results"] : body["ping_results"][i].kind = "object"

\* C4 as stated: an upload-session request that carries the eight required
\* fields, uses a session_id not yet stored and meets no storage fault is
\* answered 200 and its ping_sessions row exists afterwards, whichever
\* optional fields it omits.
C4_Step ==
    (/\ IsPost(req', P_upload) /\ ~req'.malformed
     /\ C3_Missing(req'.body) = {}
     /\ ret'.fault = "none"
     /\ C4_WellFormedResults(req'.body)
     /\ \A i \in DOMAIN ping_sessions : ping_sessions[i].session_id # req'.body["session_id"])
    => /\ resp'.status = 200
       /\ \E i \in DOMAIN ping_sessions' :
             ping_sessions'[i].session_id = req'.body["session_id"]
C4_RequiredFieldsSuffice == [][C4_Step]_vars

\* number of entries of the nested ping_results list
C5_NumResults(body) == IF "ping_results" \in DOMAIN body THEN Len(body["ping_results"]) ELSE 0

\* C5: a store_ping_session call either returns true and adds exactly one
\* ping_sessions row, one ping_results row per entry of the nested list, and
\* on the referenced client row (if any) total_sessions + 1 with
\* last_location set to end_location; or it returns false and leaves
\* clients, ping_sessions and ping_results exactly as they were.
C5_Step ==
    ret'.op = "store_ping_session" =>
        LET b == req'.body
            n == Len(ping_sessions)
            m == Len(ping_results)
        IN  IF ret'.ok
            THEN /\ Len(ping_sessions') = n + 1
                 /\ SubSeq(ping_sessions', 1, n) = ping_sessions
                 /\ ping_sessions'[n + 1].session_id = b["session_id"]
                 /\ Len(ping_results') = m + C5_NumResults(b)
                 /\ SubSeq(ping_results', 1, m) = ping_results
                 /\ \A i \in (m + 1)..Len(ping_results') :
                       ping_results'[i].session_id = b["session_id"]
                 /\ clients' =
                       {IF c.client_id = b["client_id"]
                        THEN [c EXCEPT !.total_sessions = @ + 1,
                                       !.last_location =
                                          IF "end_location" \in DOMAIN b
                                          THEN b["end_location"] ELSE <<"N/A">>]
                        ELSE c : c \in clients}
            ELSE /\ clients' = clients
                 /\ ping_sessions' = ping_sessions
                 /\ ping_results' = ping_results
C5_AllOrNothing == [][C5_Step]_vars

C5_Witness ==
    /\ ret.op = "store_ping_session" /\ ~ret.ok /\ ret.fault = "none"
    /\ "ping_results" \in DOMAIN req.body
    /\ \E i \in DOMAIN req.body["ping_results"] :
          i > 1 /\ req.body["ping_results"][i].kind # "object"
    /\ \E c \in clients : c.client_id = req.body["client_id"]
    /\ \A i \in DOMAIN ping_sessions : ping_sessions[i].session_id # req.body["session_id"]

\* the positions of a store call at which the thread is inside the with block
C6_Inside == {"locked", "body", "unlock"}

\* C6: under any interleaving of concurrent store calls at most one thread is
\* inside its locked body, and the database equals the one obtained by
\* running the committed calls one at a time in commit order: no client_id
\* has two rows, and each row's total_sessions is the number of successful
\* uploads made for it since it was registered.
C6_Serialized ==
    /\ \A t, u \in Threads : (pc[t] \in C6_Inside /\ pc[u] \in C6_Inside) => t = u
    /\ \A t \in Threads : pc[t] \in C6_Inside => lock = t
    /\ DB = serial
    /\ \A c, d \in clients : c.client_id = d.client_id => c = d
    /\ \A c \in clients : c.total_sessions = Count(counted, c.client_id)

C6_Witness ==
    /\ overlap
    /\ \A t \in Threads : pc[t] = "idle" /\ call[t].op = "store_ping_session" /\ call[t].ok
    /\ call[1].arg["client_id"] = call[2].arg["client_id"]
    /\ \E c \in clients : c.client_id = call[1].arg["client_id"] /\ c.total_sessions = 2

\* the GET requests that do_GET hands to handle_get_client_data
C7_ClientDataRequest(r) ==
    /\ r.method = "GET"
    /\ r.path \notin {<<"/">>, <<"/", "api">>, <<"/", "api", "/", "status">>,
                      <<"/", "api", "/", "ping">>, <<"/", "api", "/", "clients">>,
                      <<"/", "api", "/", "locations">>}
    /\ Len(r.path) >= 5
    /\ SubSeq(r.path, 1, 5) = <<"/", "api", "/", "clients", "/">>

\* C7 as stated: GET /api/clients/{id} is answered 404 with an error body
\* whenever no client row has the id taken from the path (an empty id
\* included), and 200 with that single client's record only when such a row
\* exists.
C7_NotFoundWhenAbsent ==
    C7_ClientDataRequest(req) =>
        LET id == last_segment(req.path)
            rows == {c \in clients : c.client_id = id}
        IN  /\ rows = {} =>
                /\ resp.status = 404
                /\ resp.body.error = TRUE
                /\ resp.body.status_code = 404
            /\ resp.status = 200 =>
                /\ rows # {}
                /\ resp.body.client.kind = "row"
                /\ \A c \in resp.body.client.rows : c.client_id = id

\* C8 as stated: a connect request whose JSON body lacks device_id is
\* answered 400, not 500, and creates or modifies no client row.
C8_Step ==
    (IsPost(req', P_connect) /\ ~req'.malformed /\ "device_id" \notin DOMAIN req'.body) =>
        /\ resp'.status = 400
        /\ clients' = clients
C8_MissingDeviceIdIs400 == [][C8_Step]_vars

\* C9 as stated: on each of the three POST endpoints a body that is
\* malformed JSON is answered 400 and leaves every table unchanged.
C9_Step ==
    (req'.method = "POST" /\ req'.path \in {P_connect, P_heartbeat, P_upload}
     /\ req'.malformed) =>
        /\ resp'.status = 400
        /\ UNCHANGED dbvars
C9_MalformedJsonIs400 == [][C9_Step]_vars

\* C10 as stated: a heartbeat whose store_heartbeat call failed is answered
\* 500; a 200 reply is sent only if the heartbeat row was appended.
C10_FailedHeartbeatIs500 ==
    (IsPost(req, P_heartbeat) /\ ret.op = "store_heartbeat" /\ ~ret.ok) =>
        resp.status = 500

\* C11 as stated: GET /api/clients and GET /api/clients/{id} are answered
\* 500 whenever the get_client_stats read failed on a storage fault, never
\* 200 with an empty client list nor 404.
C11_ReadFaultIs500 ==
    (req.method = "GET" /\ ret.op = "get_client_stats" /\ ret.fault # "none") =>
        resp.status = 500

\* the location fields an upload-session body may omit
C12_SessionLocations == {"start_location", "end_location"}

\* C12: a connect or heartbeat request that omits location and is stored, and
\* an upload-session request that omits start_location or end_location and is
\* stored, put the string "N/A" in the corresponding column
\* (clients.last_location, heartbeats.location, ping_sessions.start_location /
\* end_location); every 200 response to such a request echoes "N/A" in the
\* corresponding field.
C12_Step ==
    /\ (IsPost(req', P_connect) /\ ~req'.malformed /\ "location" \notin DOMAIN req'.body) =>
          /\ resp'.status = 200 => resp'.body.location_recorded = <<"N/A">>
          /\ ret'.ok =>
                /\ resp'.status = 200
                /\ \E c \in clients' :
                      c.client_id = resp'.body.client_id /\ c.last_location = <<"N/A">>
    /\ (IsPost(req', P_heartbeat) /\ ~req'.malformed /\ "location" \notin DOMAIN req'.body) =>
          /\ resp'.status = 200 => resp'.body.location_recorded = <<"N/A">>
          /\ ret'.ok =>
                /\ resp'.status = 200
                /\ Len(heartbeats') = Len(heartbeats) + 1
                /\ heartbeats'[Len(heartbeats')].location = <<"N/A">>
    /\ (IsPost(req', P_upload) /\ ~req'.malformed) =>
          \A f \in C12_SessionLocations \ DOMAIN req'.body :
              /\ resp'.status = 200 => resp'.body[f] = <<"N/A">>
              /\ ret'.ok =>
                    /\ resp'.status = 200
                    /\ Len(ping_sessions') = Len(ping_sessions) + 1
                    /\ ping_sessions'[Len(ping_sessions')][f] = <<"N/A">>
C12_DefaultLocation == [][C12_Step]_vars

C12_Witness ==
    /\ IsPost(req, P_upload) /\ resp.status = 200
    /\ DOMAIN req.body \cap C12_SessionLocations = {"end_location"}
    /\ ping_sessions[Len(ping_sessions)].start_location = <<"N/A">>
    /\ ping_sessions[Len(ping_sessions)].end_location # <<"N/A">>
    /\ resp.body.start_location = <<"N/A">>
    /\ heartbeats # << >> /\ heartbeats[1].location = <<"N/A">>
    /\ \E c \in clients : c.last_location = <<"N/A">>

\* a stored location that is a non-null, non-empty string
C13_IsLocation(v) == v # <<"None">> /\ v # << >>

\* C13 as stated: in every reachable state every stored location field
\* (clients.last_location, ping_sessions.start_location and end_location,
\* ping_results.location, heartbeats.location) is a non-null, non-empty
\* string, whatever the requests supplied for those fields.
C13_LocationsNeverNullOrEmpty ==
    /\ \A c \in clients : C13_IsLocation(c.last_location)
    /\ \A i \in DOMAIN ping_sessions :
          /\ C13_IsLocation(ping_sessions[i].start_location)
          /\ C13_IsLocation(ping_sessions[i].end_location)
    /\ \A i \in DOMAIN ping_results : C13_IsLocation(ping_results[i].location)
    /\ \A i \in DOMAIN heartbeats : C13_IsLocation(heartbeats[i].location)

\* the fields store_ping_session cannot do without (lines 231-234)
C14_StoreFields == {"session_id", "client_id", "host", "protocol", "start_time", "end_time",
                    "duration_seconds", "packets_sent", "packets_received",
                    "packet_loss_percent"}

\* C14: an upload-session request whose client_id matches no client row
\* still succeeds. When its body has the fields the store reads, well-formed
\* results and a session_id not yet stored, and the storage engine does not
\* fail, it is answered 200, its ping_sessions row and one ping_results row
\* per entry are appended, and the clients table is left exactly as it was
\* (no row created, none changed).
C14_Step ==
    (/\ IsPost(req', P_upload) /\ ~req'.malformed
     /\ C14_StoreFields \subseteq DOMAIN req'.body
     /\ C4_WellFormedResults(req'.body)
     /\ ret'.fault = "none"
     /\ \A i \in DOMAIN ping_sessions : ping_sessions[i].session_id # req'.body["session_id"]
     /\ \A c \in clients : c.client_id # req'.body["client_id"])
    => /\ resp'.status = 200
       /\ Len(ping_sessions') = Len(ping_sessions) + 1
       /\ SubSeq(ping_sessions', 1, Len(ping_sessions)) = ping_sessions
       /\ ping_sessions'[Len(ping_sessions')].session_id = req'.body["session_id"]
       /\ ping_sessions'[Len(ping_sessions')].client_id = req'.body["client_id"]
       /\ Len(ping_results') = Len(ping_results) + C5_NumResults(req'.body)
       /\ SubSeq(ping_results', 1, Len(ping_results)) = ping_results
       /\ \A i \in (Len(ping_results) + 1)..Len(ping_results') :
             ping_results'[i].session_id = req'.body["session_id"]
       /\ clients' = clients
C14_UnknownClientStillStored == [][C14_Step]_vars

C14_Witness ==
    /\ IsPost(req, P_upload) /\ resp.status = 200
    /\ clients # {}
    /\ \A c \in clients : c.client_id # req.body["client_id"]
    /\ C5_NumResults(req.body) = 2
    /\ Len(ping_results) = 2
    /\ ping_sessions[Len(ping_sessions)].client_id = req.body["client_id"]

\* C15: an OPTIONS request to any path is answered with status 200, exactly
\* the headers Access-Control-Allow-Origin: *, Access-Control-Allow-Methods:
\* GET, POST, PUT, DELETE, OPTIONS and Access-Control-Allow-Headers:
\* Content-Type, Authorization, and an empty body, and it changes no table.
C15_Step ==
    req'.method = "OPTIONS" =>
        /\ resp'.status = 200
        /\ DOMAIN resp'.headers = {"Access-Control-Allow-Origin",
                                   "Access-Control-Allow-Methods",
                                   "Access-Control-Allow-Headers"}
        /\ resp'.headers["Access-Control-Allow-Origin"] = "*"
        /\ resp'.headers["Access-Control-Allow-Methods"] = "GET, POST, PUT, DELETE, OPTIONS"
        /\ resp'.headers["Access-Control-Allow-Headers"] = "Content-Type, Authorization"
        /\ resp'.body = << >>
        /\ UNCHANGED dbvars
C15_OptionsPreflight == [][C15_Step]_vars

C15_Witness ==
    /\ req.method = "OPTIONS" /\ req.path = <<"/", "nope">>
    /\ resp.status = 200
    /\ clients # {} /\ ping_sessions # << >>

\* C16 as stated: in every reachable state each client row's client_id
\* equals its stored device_id, followed by an underscore, followed by its
\* stored device_model with every space replaced by an underscore.
C16_ClientIdDerivedFromRow ==
    \A c \in clients :
        c.client_id = c.device_id \o <<"_">> \o
            [i \in 1..Len(c.device_model) |->
                IF c.device_model[i] = " " THEN "_" ELSE c.device_model[i]]

\* C17: a successful connect call for a client_id that already has a row
\* leaves that row's first_seen, device_id and total_sessions unchanged
\* (so only last_seen, device_model, android_version, app_version and
\* last_location may change) and changes no other client row; a successful
\* connect call for a client_id with no row inserts exactly one row, with
\* total_sessions = 0 and first_seen = last_seen; a failed connect call
\* leaves the clients table as it was.
C17_Step ==
    ret'.op = "register_or_update_client" =>
        LET id == ret'.client_id
            old == {c \in clients : c.client_id = id}
        IN  IF ~ret'.ok THEN clients' = clients
            ELSE IF old # {}
            THEN \E c \in old : \E d \in clients' :
                    /\ d.client_id = id
                    /\ d.first_seen = c.first_seen
                    /\ d.device_id = c.device_id
                    /\ d.total_sessions = c.total_sessions
                    /\ clients' \ {d} = clients \ {c}
                    /\ Cardinality(clients') = Cardinality(clients)
            ELSE \E d \in clients' :
                    /\ d.client_id = id
                    /\ d.total_sessions = 0
                    /\ d.first_seen = d.last_seen
                    /\ d \notin clients
                    /\ clients' = clients \cup {d}
C17_ConnectFrame == [][C17_Step]_vars

C17_Witness ==
    /\ IsPost(req, P_connect) /\ ret.ok
    /\ Cardinality(clients) = 2
    /\ \E c \in clients :
          c.client_id = ret.client_id /\ c.first_seen < c.last_seen - 1

\* the client_id a heartbeat body names, if it names a non-empty one
C18_Names(body, id) ==
    "client_id" \in DOMAIN body /\ body["client_id"] # << >> /\ body["client_id"] = id

\* C18: every successful store_heartbeat call appends exactly one heartbeats
\* row, also when the request carries no client_id or an unknown one; it
\* creates no client row, leaves every client's total_sessions and
\* first_seen (and every field but last_seen and last_location) as they
\* were, and changes last_seen and last_location only on the client row
\* whose client_id equals a non-empty client_id in the request.
C18_Step ==
    (ret'.op = "store_heartbeat" /\ ret'.ok) =>
        /\ Len(heartbeats') = Len(heartbeats) + 1
        /\ SubSeq(heartbeats', 1, Len(heartbeats)) = heartbeats
        /\ Cardinality(clients') = Cardinality(clients)
        /\ \A c \in clients :
              IF C18_Names(req'.body, c.client_id)
              THEN [c EXCEPT !.last_seen = heartbeats'[Len(heartbeats')].timestamp,
                             !.last_location = heartbeats'[Len(heartbeats')].location]
                     \in clients'
              ELSE c \in clients'
        /\ UNCHANGED <<ping_sessions, ping_results>>
C18_HeartbeatFrame == [][C18_Step]_vars

C18_Witness ==
    /\ IsPost(req, P_heartbeat) /\ ret.op = "store_heartbeat" /\ ret.ok
    /\ "client_id" \notin DOMAIN req.body
    /\ Len(heartbeats) = 2
    /\ heartbeats[1].client_id # << >>
    /\ \E c \in clients : c.client_id = heartbeats[1].client_id /\ c.last_seen = 1

\* C19 as stated: session_id is unique across ping_sessions in every
\* reachable state: an upload-session whose session_id is already stored is
\* answered 500, leaves the stored session rows and result rows unchanged
\* and increments no client's total_sessions.
C19_Step ==
    /\ \A i, j \in DOMAIN ping_sessions' :
          ping_sessions'[i].session_id = ping_sessions'[j].session_id => i = j
    /\ (/\ IsPost(req', P_upload) /\ ~req'.malformed
        /\ C3_Missing(req'.body) = {}
        /\ \E i \in DOMAIN ping_sessions :
              ping_sessions[i].session_id = req'.body["session_id"])
       => /\ resp'.status = 500
          /\ UNCHANGED <<ping_sessions, ping_results>>
          /\ \A c \in clients : \E d \in clients' :
                d.client_id = c.client_id /\ d.total_sessions = c.total_sessions
C19_SessionIdUnique == [][C19_Step]_vars

\* seq is still there, unchanged, at the front of seq2
C20_KeptIn(seq, seq2) == Len(seq2) >= Len(seq) /\ SubSeq(seq2, 1, Len(seq)) = seq

\* C20: no request removes a row from clients, ping_sessions, ping_results
\* or heartbeats; a ping_sessions row, a ping_results row and a heartbeats
\* row, once created, is never modified by a later operation; a client's
\* total_sessions never decreases.
C20_Step ==
    /\ \A c \in clients : \E d \in clients' :
          d.client_id = c.client_id /\ d.total_sessions >= c.total_sessions
    /\ Cardinality(clients') >= Cardinality(clients)
    /\ C20_KeptIn(ping_sessions, ping_sessions')
    /\ C20_KeptIn(ping_results, ping_results')
    /\ C20_KeptIn(heartbeats, heartbeats')
C20_AppendOnly == [][C20_Step]_vars

C20_Witness ==
    /\ IsPost(req, P_upload) /\ resp.status = 500 /\ ret.fault = "none"
    /\ \E i \in DOMAIN ping_sessions : ping_sessions[i].session_id = req.body["session_id"]
    /\ ping_results # << >>
    /\ \E c \in clients : c.total_sessions = 1

\* C21: each mutating store operation releases the lock on every exit path,
\* success and failure alike (no thread that has returned holds it, and the
\* lock is free when every thread has returned), and under fair scheduling
\* every call waiting for the lock eventually acquires it and returns.
C21_LockAlwaysReleased ==
    /\ [](\A t \in Threads : pc[t] \in {"idle", "wait"} => lock # t)
    /\ []((\A t \in Threads : pc[t] = "idle") => lock = 0)
    /\ \A t \in Threads : (pc[t] = "wait") ~> (pc[t] = "idle" /\ lock # t)

C21_Witness ==
    /\ overlap
    /\ \A t \in Threads : pc[t] = "idle"
    /\ lock = 0
    /\ \E t, u \in Threads :
          /\ call[t].op = "store_ping_session" /\ call[t].fault = "commit" /\ ~call[t].ok
          /\ call[u].op = "store_ping_session" /\ call[u].fault = "none" /\ ~call[u].ok
          /\ t # u
    /\ leaked

\* the method / path pairs that name an endpoint
C22_Endpoint(r) ==
    \/ /\ r.method = "GET"
       /\ \/ r.path \in {<<"/">>, <<"/", "api">>, <<"/", "api", "/", "status">>,
                         <<"/", "api", "/", "ping">>, <<"/", "api", "/", "clients">>,
                         <<"/", "api", "/", "locations">>}
          \/ /\ Len(r.path) >= 5
             /\ SubSeq(r.path, 1, 5) = <<"/", "api", "/", "clients", "/">>
    \/ /\ r.method = "POST"
       /\ r.path \in {<<"/", "api", "/", "connect">>, <<"/", "api", "/", "heartbeat">>,
                      <<"/", "api", "/", "upload-session">>}

\* one more GET and one more POST request can be handled
C22_CanServe ==
    /\ ENABLED do_GET([method |-> "GET", path |-> <<"/", "api", "/", "ping">>,
                       malformed |-> FALSE, body |-> << >>], "none")
    /\ ENABLED do_POST([method |-> "POST", path |-> <<"/", "api", "/", "heartbeat">>,
                        malformed |-> FALSE, body |-> << >>], "none")

\* C22: every GET or POST request, whatever its path, body and the outcome
\* of the store call, gets exactly one response, whose status is 200, 400,
\* 404 or 500; it is 404 when the method and path name no endpoint; a body
\* sent with another status than 200 carries error = true and a status_code
\* equal to the HTTP status; and afterwards the server can handle further
\* requests (as long as the run goes on).
C22_Step ==
    req'.method \in {"GET", "POST"} =>
        /\ sent' = 1
        /\ resp'.status \in {200, 400, 404, 500}
        /\ ~C22_Endpoint(req') => resp'.status = 404
        /\ resp'.status # 200 =>
              /\ resp'.body.error = TRUE
              /\ resp'.body.status_code = resp'.status
C22_OneResponseAlways ==
    /\ [][C22_Step]_vars
    /\ [](now < MaxClock => C22_CanServe)

C22_Witness ==
    /\ IsPost(req, P_upload) /\ resp.status = 500 /\ sent = 1
    /\ ret.fault = "locked" /\ leaked
    /\ now < MaxClock

\* C23 as stated: in every reachable state, for every client row, the stored
\* total_sessions is at most the actual_sessions that get_client_stats
\* reports for it, and the two differ exactly by the sessions uploaded for
\* that client_id while it had no row.
C23_TotalAtMostActual ==
    \A c \in clients :
        /\ c.total_sessions <= actual_sessions(DB, c)
        /\ actual_sessions(DB, c) - c.total_sessions =
              Count(stored, c.client_id) - Count(counted, c.client_id)

\* SQL equality of two column values: NULL equals nothing, not even NULL
C24_SqlEqual(a, b) == a # <<"None">> /\ b # <<"None">> /\ a = b

\* C24 as stated: in every reachable state every ping_results row has a
\* session_id for which a ping_sessions row exists: no sequence of
\* successful and failed uploads leaves an orphan result row.
C24_NoOrphanResult ==
    \A i \in DOMAIN ping_results : \E j \in DOMAIN ping_sessions :
        C24_SqlEqual(ping_results[i].session_id, ping_sessions[j].session_id)

====
